---- MODULE Spec2Model ----
(***************************************************************************)
(* Model of ssh-clipboard (src/src/main.rs).                               *)
(*                                                                         *)
(* Text is modelled as a sequence of one-character strings, so that        *)
(* prefixes, trimming, line splitting and the JSON encoding of a Message   *)
(* are computed character by character as the program computes them.       *)
(*                                                                         *)
(* The program runs in one of two server modes, chosen by the target OS    *)
(* (run_iosync_mode): "linux" serves GET/SET on a Unix socket, "mac"       *)
(* watches the native clipboard and reads framed lines from stdin.  The    *)
(* xclip mode is the socket client.                                        *)
(***************************************************************************)
EXTENDS Naturals, Sequences, FiniteSets

(***************************************************************************)
(* Bounds of the model.                                                    *)
(***************************************************************************)
\* connections made to the socket server
MaxConns == 3
\* lines arriving on the stdin of the relay
MaxLines == 2
\* changes of the native clipboard made by the user
MaxExt == 1

(***************************************************************************)
(* Text helpers (std::str).                                                *)
(***************************************************************************)
Drop(s, n) == SubSeq(s, n + 1, Len(s))

Take(s, n) == SubSeq(s, 1, n)

\* str::starts_with
StartsWith(s, p) == Len(s) >= Len(p) /\ Take(s, Len(p)) = p

\* char::is_whitespace, on the characters the model uses
IsWhitespace(c) == c \in {" ", "\t", "\n", "\r"}

RECURSIVE TrimStart(_)
TrimStart(s) ==
  IF s # << >> /\ IsWhitespace(s[1]) THEN TrimStart(Drop(s, 1)) ELSE s

RECURSIVE TrimEnd(_)
TrimEnd(s) ==
  IF s # << >> /\ IsWhitespace(s[Len(s)]) THEN TrimEnd(Take(s, Len(s) - 1)) ELSE s

\* Trim with only the line end removed (str::trim_end_matches('\n'))
TrimLineEnd(s) ==
  IF s # << >> /\ s[Len(s)] = "\n" THEN Take(s, Len(s) - 1) ELSE s

\* str::trim: leading and trailing whitespace removed
Trim(s) == TrimEnd(TrimStart(s))

\* index of the first "\n" of s, 0 when there is none
RECURSIVE NewlineAt(_, _)
NewlineAt(s, i) ==
  IF i > Len(s) THEN 0 ELSE IF s[i] = "\n" THEN i ELSE NewlineAt(s, i + 1)

HasNewline(s) == NewlineAt(s, 1) # 0

\* BufRead::read_line on a stream holding s: everything up to and including
\* the first "\n", or all of s when the stream ended without one
FirstLine(s) == IF HasNewline(s) THEN Take(s, NewlineAt(s, 1)) ELSE s

\* BufRead::lines yields each line without its "\n" and without a "\r"
\* that precedes it; raw is the line as it arrived, without the "\n"
LinesItem(raw) ==
  IF raw # << >> /\ raw[Len(raw)] = "\r" THEN Take(raw, Len(raw) - 1) ELSE raw

\* [&str]::join("\n")
RECURSIVE JoinLines(_)
JoinLines(ls) ==
  IF ls = << >> THEN << >>
  ELSE IF Len(ls) = 1 THEN ls[1]
  ELSE ls[1] \o <<"\n">> \o JoinLines(Drop(ls, 1))

(***************************************************************************)
(* struct Message { content: String } and its serde_json form.             *)
(***************************************************************************)
JsonHead == <<"{", "\"", "c", "o", "n", "t", "e", "n", "t", "\"", ":", "\"">>

JsonTail == <<"\"", "}">>

\* serde_json's escaping of one character of a string
EscapeChar(c) ==
  CASE c = "\"" -> <<"\\", "\"">>
    [] c = "\\" -> <<"\\", "\\">>
    [] c = "\n" -> <<"\\", "n">>
    [] c = "\r" -> <<"\\", "r">>
    [] c = "\t" -> <<"\\", "t">>
    [] OTHER -> <<c>>

RECURSIVE Escape(_)
Escape(t) == IF t = << >> THEN << >> ELSE EscapeChar(t[1]) \o Escape(Drop(t, 1))

\* serde_json::to_string(&Message { content })
ToJson(content) == JsonHead \o Escape(content) \o JsonTail

\* The body of a JSON string, read up to its closing quote: ok is FALSE
\* on an unterminated string, a raw control character or an unknown escape.
RECURSIVE ReadString(_, _)
ReadString(s, acc) ==
  IF s = << >> THEN [ok |-> FALSE, content |-> acc, rest |-> << >>]
  ELSE IF s[1] = "\"" THEN [ok |-> TRUE, content |-> acc, rest |-> Drop(s, 1)]
  ELSE IF s[1] \in {"\n", "\r", "\t"}
    THEN [ok |-> FALSE, content |-> acc, rest |-> << >>]
  ELSE IF s[1] = "\\" THEN
    IF Len(s) < 2 THEN [ok |-> FALSE, content |-> acc, rest |-> << >>]
    ELSE CASE s[2] = "\"" -> ReadString(Drop(s, 2), Append(acc, "\""))
           [] s[2] = "\\" -> ReadString(Drop(s, 2), Append(acc, "\\"))
           [] s[2] = "/" -> ReadString(Drop(s, 2), Append(acc, "/"))
           [] s[2] = "n" -> ReadString(Drop(s, 2), Append(acc, "\n"))
           [] s[2] = "r" -> ReadString(Drop(s, 2), Append(acc, "\r"))
           [] s[2] = "t" -> ReadString(Drop(s, 2), Append(acc, "\t"))
           [] OTHER -> [ok |-> FALSE, content |-> acc, rest |-> << >>]
  ELSE ReadString(Drop(s, 1), Append(acc, s[1]))

\* serde_json::from_str::<Message>(s), for s written without whitespace
\* between its tokens: Ok(Message) or Err
FromJson(s) ==
  IF ~StartsWith(s, JsonHead) THEN [ok |-> FALSE, content |-> << >>]
  ELSE LET r == ReadString(Drop(s, Len(JsonHead)), << >>)
       IN  IF r.ok /\ r.rest = <<"}">>
             THEN [ok |-> TRUE, content |-> r.content]
             ELSE [ok |-> FALSE, content |-> << >>]

\* the prefix the stdin thread looks for (main.rs:126)
IN_PREFIX ==
  <<"C", "L", "I", "P", "B", "O", "A", "R", "D", "_", "S", "Y", "N", "C", ":">>

\* the prefix eprintln! writes before a frame (main.rs:78, main.rs:113)
OUT_PREFIX ==
  <<"C", "L", "I", "P", "B", "O", "A", "R", "D", "-", "S", "Y", "N", "C", ":">>

\* the line eprintln!("CLIPBOARD-SYNC:{}", msg_str) writes, without its "\n"
EmitLine(content) == OUT_PREFIX \o ToJson(content)

\* a frame on stderr: the line, and the content it was written for
Emit(content) == [content |-> content, line |-> EmitLine(content)]

(***************************************************************************)
(* Inputs.                                                                 *)
(***************************************************************************)
\* texts the native clipboard can hold
Texts == { << >>, <<"a">>, <<"b", "\"">> }

\* The request the xclip client writes: "GET\n" with -o (main.rs:175), else
\* "SET " followed by the lines of its stdin joined by "\n" (main.rs:181-189).
\* It reads the reply with its own writing side still open.
XclipGet == [kind |-> "xclip_get", bytes |-> <<"G", "E", "T", "\n">>, close |-> FALSE]

SetCmd(input) == <<"S", "E", "T", " ">> \o input

XclipSet(stdin) ==
  [kind |-> "xclip_set", bytes |-> SetCmd(JoinLines(stdin)), close |-> FALSE]

\* a request of another program speaking the protocol; close: it shuts down
\* its writing side after the request
Raw(bytes, close) == [kind |-> "raw", bytes |-> bytes, close |-> close]

\* two requests written on one connection: "GET\nSET a\n"
Pipelined == Raw(<<"G", "E", "T", "\n">> \o SetCmd(<<"a", "\n">>), FALSE)

Requests ==
  { XclipGet,
    XclipSet(<< <<"a">> >>),
    XclipSet(<< <<"a">>, <<"b">> >>),
    Raw(SetCmd(<<"a", "\n">>), FALSE),
    Raw(SetCmd(<<"b", " ">>), TRUE),
    Raw(SetCmd(<<"\n">>), FALSE),
    Raw(<<"P", "I", "N", "G", "\n">>, FALSE),
    Pipelined }

NoRequest == [kind |-> "none", bytes |-> << >>, close |-> FALSE]

\* lines arriving on the stdin of the relay, each without its final "\n"
InboundLines ==
  { <<"x">>,
    <<"y", "\r">>,
    IN_PREFIX \o ToJson(<<"a">>),
    IN_PREFIX \o ToJson(<<"b", "\"">>),
    IN_PREFIX \o <<"{", "a">> }

(***************************************************************************)
(* State.                                                                  *)
(***************************************************************************)
VARIABLES
  mode,          \* cfg!(target_os = "linux"): "linux" or "mac"
  alive,         \* the process has not terminated
  last_message,  \* the String inside Arc<Mutex<String>>
  lock,          \* the thread holding the Mutex, or "free"
  poisoned,      \* a thread panicked while holding the Mutex
  stderr,        \* the frames written by eprintln!
  conn,          \* the connections to the socket: client and stream state
  srv_pc,        \* where the accept loop and its joined handler thread are
  accepted,      \* connections accepted so far; the handler serves this one
  command,       \* the handler's command
  clipboard,     \* the text of the native clipboard
  w_pc,          \* where the clipboard thread is
  w_text,        \* the text it read
  b_pc,          \* where the stdin thread is
  b_msg,         \* the content of the Message it decoded
  stdin_lines,   \* history: the lines that arrived on stdin
  stdout,        \* the lines written by println!
  set_calls,     \* history: calls of Clipboard::set_text
  nExt,          \* history: changes of the clipboard made by the user
  checks,        \* history: the last two comparisons with last_message
  last_checker,  \* history: the connection whose SET was compared last
  ok_set,        \* history: the latest SET request answered OK
  synced,        \* history: see BridgeCheck
  quiet          \* history: see BridgeApply

vars ==
  << mode, alive, last_message, lock, poisoned, stderr, conn, srv_pc, accepted,
     command, clipboard, w_pc, w_text, b_pc, b_msg, stdin_lines, stdout,
     set_calls, nExt, checks, last_checker, ok_set, synced, quiet >>

linux_vars == << conn, srv_pc, accepted, command, last_checker, ok_set >>

mac_vars ==
  << clipboard, w_pc, w_text, b_pc, b_msg, stdin_lines, stdout, set_calls,
     nExt, synced, quiet >>

Conns == 1 .. MaxConns

NoCheck == [checked |-> FALSE, before |-> << >>, frames |-> << >>]

Init ==
  /\ mode \in {"linux", "mac"}
  /\ alive = TRUE
  /\ last_message = << >>
  /\ lock = "free"
  /\ poisoned = FALSE
  /\ stderr = << >>
  /\ conn = [c \in Conns |->
       [cl |-> "init", req |-> NoRequest, replied |-> FALSE, reply |-> << >>,
        closed |-> FALSE, chk |-> NoCheck]]
  /\ srv_pc = "accept"
  /\ accepted = 0
  /\ command = << >>
  /\ clipboard \in (IF mode = "mac" THEN Texts ELSE {<< >>})
  /\ w_pc = "start"
  /\ w_text = << >>
  /\ b_pc = "read"
  /\ b_msg = << >>
  /\ stdin_lines = << >>
  /\ stdout = << >>
  /\ set_calls = 0
  /\ nExt = 0
  /\ checks = << >>
  /\ last_checker = 0
  /\ ok_set = [valid |-> FALSE, payload |-> << >>]
  /\ synced = FALSE
  /\ quiet = FALSE

(***************************************************************************)
(* The comparison with last_message that all three producers make while    *)
(* holding the lock: the value is taken when it differs from the stored    *)
(* one and the Message serializes (serde_json::to_string of a struct with  *)
(* one String field always does).                                          *)
(***************************************************************************)
TryAcceptAlways(last, candidate) ==
  [some |-> TRUE, last |-> candidate]

TryAcceptNoStore(last, candidate) ==
  [some |-> last # candidate, last |-> last]

TryAccept(last, candidate) ==
  IF last # candidate
    THEN [some |-> TRUE, last |-> candidate]
    ELSE [some |-> FALSE, last |-> last]

\* history of the last two comparisons
Logged(who, cand, r) ==
  LET e == [who |-> who, cand |-> cand, before |-> last_message, some |-> r.some]
  IN  IF Len(checks) < 2 THEN Append(checks, e) ELSE <<checks[2], e>>

(***************************************************************************)
(* xclip mode (run_xclip_mode) and other clients of the socket.            *)
(***************************************************************************)
\* UnixStream::connect: connections queue up in the order they are made
ClientConnect(c, r) ==
  /\ alive /\ mode = "linux"
  /\ conn[c].cl = "init"
  /\ IF c = 1 THEN TRUE ELSE conn[c - 1].cl # "init"
  /\ conn' = [conn EXCEPT ![c].cl = "connected", ![c].req = r]
  /\ UNCHANGED << mode, alive, last_message, lock, poisoned, stderr, srv_pc,
                  accepted, command, last_checker, ok_set, checks >>
  /\ UNCHANGED mac_vars

\* stream.write_all of the request (main.rs:175, main.rs:189)
ClientSend(c) ==
  /\ alive /\ mode = "linux"
  /\ conn[c].cl = "connected"
  /\ conn' = [conn EXCEPT ![c].cl = "sent"]
  /\ UNCHANGED << mode, alive, last_message, lock, poisoned, stderr, srv_pc,
                  accepted, command, last_checker, ok_set, checks >>
  /\ UNCHANGED mac_vars

\* stream.read_to_string returns once the server has closed the stream
\* (main.rs:177, main.rs:191)
ClientRead(c) ==
  /\ alive /\ mode = "linux"
  /\ conn[c].cl = "sent"
  /\ conn[c].closed
  /\ conn' = [conn EXCEPT ![c].cl = "done"]
  /\ UNCHANGED << mode, alive, last_message, lock, poisoned, stderr, srv_pc,
                  accepted, command, last_checker, ok_set, checks >>
  /\ UNCHANGED mac_vars

\* what the server can read of connection c, and whether it ends there
Stream(c) == IF conn[c].cl \in {"sent", "done"} THEN conn[c].req.bytes ELSE << >>

StreamEnded(c) == conn[c].cl \in {"sent", "done"} /\ conn[c].req.close

(***************************************************************************)
(* run_iosync_mode_on_linux: the accept loop spawns a thread for the       *)
(* connection and joins it before it accepts the next one.                 *)
(***************************************************************************)
\* listener.incoming() yields the next connection; thread::spawn
Accept ==
  /\ alive /\ mode = "linux"
  /\ srv_pc = "accept"
  /\ accepted < MaxConns
  /\ conn[accepted + 1].cl # "init"
  /\ accepted' = accepted + 1
  /\ srv_pc' = "read_line"
  /\ UNCHANGED << mode, alive, last_message, lock, poisoned, stderr, conn,
                  command, last_checker, ok_set, checks >>
  /\ UNCHANGED mac_vars

\* reader.read_line returns at the first "\n" or at the end of the stream,
\* and blocks until then; command = command.trim()
HandlerReadLine ==
  /\ alive /\ mode = "linux"
  /\ srv_pc = "read_line"
  /\ IF HasNewline(Stream(accepted)) THEN TRUE ELSE StreamEnded(accepted)
  /\ command' = Trim(FirstLine(Stream(accepted)))
  /\ srv_pc' = "dispatch"
  /\ UNCHANGED << mode, alive, last_message, lock, poisoned, stderr, conn,
                  accepted, last_checker, ok_set, checks >>
  /\ UNCHANGED mac_vars

GET == <<"G", "E", "T">>

SET_ == <<"S", "E", "T", " ">>

OK == <<"O", "K">>

UnknownCommand ==
  <<"U", "n", "k", "n", "o", "w", "n", " ", "c", "o", "m", "m", "a", "n", "d">>

\* command == "GET": last_message_conn.lock()
HandlerGetLock ==
  /\ alive /\ mode = "linux"
  /\ srv_pc = "dispatch"
  /\ command = GET
  /\ lock = "free"
  /\ lock' = "unix_socket_reader_thread"
  /\ srv_pc' = "get_locked"
  /\ UNCHANGED << mode, alive, last_message, poisoned, stderr, conn, accepted,
                  command, last_checker, ok_set, checks >>
  /\ UNCHANGED mac_vars

\* HandlerGetReply with the text moved out of the Mutex (std::mem::take)
\* instead of cloned
HandlerGetReplyTakes ==
  /\ alive /\ mode = "linux"
  /\ srv_pc = "get_locked"
  /\ conn' = [conn EXCEPT ![accepted].replied = TRUE,
                          ![accepted].reply = last_message]
  /\ last_message' = << >>
  /\ lock' = "free"
  /\ srv_pc' = "shutdown"
  /\ UNCHANGED << mode, alive, poisoned, stderr, accepted, command,
                  last_checker, ok_set, checks >>
  /\ UNCHANGED mac_vars

\* stream.write_all(last.clone()); the guard is dropped at the end of the
\* branch
HandlerGetReply ==
  /\ alive /\ mode = "linux"
  /\ srv_pc = "get_locked"
  /\ conn' = [conn EXCEPT ![accepted].replied = TRUE,
                          ![accepted].reply = last_message]
  /\ lock' = "free"
  /\ srv_pc' = "shutdown"
  /\ UNCHANGED << mode, alive, last_message, poisoned, stderr, accepted,
                  command, last_checker, ok_set, checks >>
  /\ UNCHANGED mac_vars

\* command.starts_with("SET "): last_message_conn.lock()
HandlerSetLock ==
  /\ alive /\ mode = "linux"
  /\ srv_pc = "dispatch"
  /\ command # GET
  /\ StartsWith(command, SET_)
  /\ lock = "free"
  /\ lock' = "unix_socket_reader_thread"
  /\ srv_pc' = "set_locked"
  /\ UNCHANGED << mode, alive, last_message, poisoned, stderr, conn, accepted,
                  command, last_checker, ok_set, checks >>
  /\ UNCHANGED mac_vars

\* new_text = command["SET ".len()..]; if *last != msg.content, *last is set
\* and eprintln! writes the frame, with the lock held
HandlerSetCheck ==
  /\ alive /\ mode = "linux"
  /\ srv_pc = "set_locked"
  /\ LET new_text == Drop(command, Len(SET_))
         r == TryAccept(last_message, new_text)
     IN  /\ last_message' = r.last
         /\ stderr' = IF r.some THEN Append(stderr, Emit(new_text)) ELSE stderr
         /\ conn' = [conn EXCEPT ![accepted].chk =
              [checked |-> TRUE, before |-> last_message,
               frames |-> IF r.some THEN <<Emit(new_text)>> ELSE << >>]]
         /\ checks' = Logged("unix_socket_reader_thread", new_text, r)
  /\ last_checker' = accepted
  /\ srv_pc' = "set_checked"
  /\ UNCHANGED << mode, alive, lock, poisoned, accepted, command, ok_set >>
  /\ UNCHANGED mac_vars

\* the payload of a SET request: what follows "SET " up to the end of the
\* request, or up to the "\n" that ends it
RequestPayload(bytes) ==
  LET rest == Drop(bytes, Len(SET_))
  IN  IF rest # << >> /\ rest[Len(rest)] = "\n" THEN Take(rest, Len(rest) - 1)
      ELSE rest

\* stream.write_all(b"OK"); the guard is dropped at the end of the branch
HandlerSetReply ==
  /\ alive /\ mode = "linux"
  /\ srv_pc = "set_checked"
  /\ conn' = [conn EXCEPT ![accepted].replied = TRUE, ![accepted].reply = OK]
  /\ ok_set' = [valid |-> TRUE, payload |-> RequestPayload(conn[accepted].req.bytes)]
  /\ lock' = "free"
  /\ srv_pc' = "shutdown"
  /\ UNCHANGED << mode, alive, last_message, poisoned, stderr, accepted,
                  command, last_checker, checks >>
  /\ UNCHANGED mac_vars

\* any other command: stream.write_all(b"Unknown command")
HandlerUnknown ==
  /\ alive /\ mode = "linux"
  /\ srv_pc = "dispatch"
  /\ command # GET
  /\ ~StartsWith(command, SET_)
  /\ conn' = [conn EXCEPT ![accepted].replied = TRUE,
                          ![accepted].reply = UnknownCommand]
  /\ srv_pc' = "shutdown"
  /\ UNCHANGED << mode, alive, last_message, lock, poisoned, stderr, accepted,
                  command, last_checker, ok_set, checks >>
  /\ UNCHANGED mac_vars

\* HandlerShutdown with the handler reading the next request of the same
\* connection instead of closing it
HandlerShutdownKeepAlive ==
  /\ alive /\ mode = "linux"
  /\ srv_pc = "shutdown"
  /\ srv_pc' = "read_line"
  /\ command' = << >>
  /\ UNCHANGED << mode, alive, last_message, lock, poisoned, stderr, accepted,
                  conn, last_checker, ok_set, checks >>
  /\ UNCHANGED mac_vars

\* stream.shutdown(Shutdown::Both); the thread ends and join() returns
HandlerShutdown ==
  /\ alive /\ mode = "linux"
  /\ srv_pc = "shutdown"
  /\ conn' = [conn EXCEPT ![accepted].closed = TRUE]
  /\ srv_pc' = "accept"
  /\ command' = << >>
  /\ UNCHANGED << mode, alive, last_message, lock, poisoned, stderr, accepted,
                  last_checker, ok_set, checks >>
  /\ UNCHANGED mac_vars

(***************************************************************************)
(* The native clipboard (arboard) and its user.                            *)
(***************************************************************************)
\* the user copies another text
ExternalCopy(t) ==
  /\ alive /\ mode = "mac"
  /\ nExt < MaxExt
  /\ t # clipboard
  /\ clipboard' = t
  /\ nExt' = nExt + 1
  /\ synced' = FALSE
  /\ quiet' = FALSE
  /\ UNCHANGED << mode, alive, last_message, lock, poisoned, stderr, checks,
                  w_pc, w_text, b_pc, b_msg, stdin_lines, stdout, set_calls >>
  /\ UNCHANGED linux_vars

(***************************************************************************)
(* run_iosync_mode_on_mac: clipboard_thread.                               *)
(***************************************************************************)
\* Clipboard::new().expect("Failed to open clipboard")
WatcherOpen(ok) ==
  /\ alive /\ mode = "mac"
  /\ w_pc = "start"
  /\ w_pc' = IF ok THEN "sleep" ELSE "panicked"
  /\ UNCHANGED << mode, alive, last_message, lock, poisoned, stderr, checks,
                  clipboard, w_text, b_pc, b_msg, stdin_lines, stdout,
                  set_calls, nExt, synced, quiet >>
  /\ UNCHANGED linux_vars

\* thread::sleep; clipboard.get_text() returns Ok(text), read without the lock
WatcherRead ==
  /\ alive /\ mode = "mac"
  /\ w_pc = "sleep"
  /\ w_text' = clipboard
  /\ w_pc' = "lock"
  /\ UNCHANGED << mode, alive, last_message, lock, poisoned, stderr, checks,
                  clipboard, b_pc, b_msg, stdin_lines, stdout, set_calls, nExt,
                  synced, quiet >>
  /\ UNCHANGED linux_vars

\* clipboard.get_text() returns Err (the clipboard holds no text, or cannot
\* be read): the tick is skipped
WatcherReadErr ==
  /\ alive /\ mode = "mac"
  /\ w_pc = "sleep"
  /\ w_pc' = "sleep"
  /\ UNCHANGED << mode, alive, last_message, lock, poisoned, stderr, checks,
                  clipboard, w_text, b_pc, b_msg, stdin_lines, stdout, set_calls, nExt,
                  synced, quiet >>
  /\ UNCHANGED linux_vars

\* last_message_for_clipboard.lock().unwrap(): panics on a poisoned Mutex
WatcherLock ==
  /\ alive /\ mode = "mac"
  /\ w_pc = "lock"
  /\ lock = "free"
  /\ IF poisoned
       THEN w_pc' = "panicked" /\ lock' = lock
       ELSE w_pc' = "locked" /\ lock' = "clipboard_thread"
  /\ UNCHANGED << mode, alive, last_message, poisoned, stderr, checks,
                  clipboard, w_text, b_pc, b_msg, stdin_lines, stdout,
                  set_calls, nExt, synced, quiet >>
  /\ UNCHANGED linux_vars

\* if *last != text: *last = text and eprintln! writes the frame, with the
\* lock held; the guard is dropped at the end of the tick
WatcherCheck ==
  /\ alive /\ mode = "mac"
  /\ w_pc = "locked"
  /\ LET r == TryAccept(last_message, w_text)
     IN  /\ last_message' = r.last
         /\ stderr' = IF r.some THEN Append(stderr, Emit(w_text)) ELSE stderr
         /\ checks' = Logged("clipboard_thread", w_text, r)
  /\ lock' = "free"
  /\ w_pc' = "sleep"
  /\ w_text' = << >>
  /\ UNCHANGED << mode, alive, poisoned, clipboard, b_pc, b_msg,
                  stdin_lines, stdout, set_calls, nExt, synced, quiet >>
  /\ UNCHANGED linux_vars

(***************************************************************************)
(* run_iosync_mode_on_mac: stdin_thread.                                   *)
(***************************************************************************)
\* line.starts_with("CLIPBOARD_SYNC:")
IsFrame(line) == StartsWith(line, IN_PREFIX)

\* serde_json::from_str of line["CLIPBOARD_SYNC:".len()..].trim()
Decode(line) == FromJson(Trim(Drop(line, Len(IN_PREFIX))))

\* BridgeReadLine with a line that does not decode written to stdout
BridgeReadLineForwardsUndecoded(raw) ==
  /\ alive /\ mode = "mac"
  /\ b_pc = "read"
  /\ Len(stdin_lines) < MaxLines
  /\ stdin_lines' = Append(stdin_lines, raw)
  /\ LET line == LinesItem(raw)
     IN  IF IsFrame(line) /\ Decode(line).ok
           THEN /\ stdout' = stdout
                /\ b_msg' = Decode(line).content
                /\ b_pc' = "lock"
           ELSE /\ stdout' = Append(stdout, line)
                /\ b_msg' = b_msg
                /\ b_pc' = "read"
  /\ UNCHANGED << mode, alive, last_message, lock, poisoned, stderr, checks,
                  clipboard, w_pc, w_text, set_calls, nExt, synced, quiet >>
  /\ UNCHANGED linux_vars

\* The next line of stdin.lock().lines().  A line without the prefix is
\* written to stdout by println!; a line with it is decoded, and dropped when
\* it does not decode.
BridgeReadLine(raw) ==
  /\ alive /\ mode = "mac"
  /\ b_pc = "read"
  /\ Len(stdin_lines) < MaxLines
  /\ stdin_lines' = Append(stdin_lines, raw)
  /\ LET line == LinesItem(raw)
     IN  IF IsFrame(line)
           THEN /\ stdout' = stdout
                /\ IF Decode(line).ok
                     THEN b_msg' = Decode(line).content /\ b_pc' = "lock"
                     ELSE b_msg' = b_msg /\ b_pc' = "read"
           ELSE /\ stdout' = Append(stdout, line)
                /\ b_msg' = b_msg
                /\ b_pc' = "read"
  /\ UNCHANGED << mode, alive, last_message, lock, poisoned, stderr, checks,
                  clipboard, w_pc, w_text, set_calls, nExt, synced, quiet >>
  /\ UNCHANGED linux_vars

\* last_message_for_stdin.lock().unwrap()
BridgeLock ==
  /\ alive /\ mode = "mac"
  /\ b_pc = "lock"
  /\ lock = "free"
  /\ lock' = "stdin_thread"
  /\ b_pc' = "locked"
  /\ UNCHANGED << mode, alive, last_message, poisoned, stderr, checks,
                  clipboard, w_pc, w_text, b_msg, stdin_lines, stdout,
                  set_calls, nExt, synced, quiet >>
  /\ UNCHANGED linux_vars

\* if *last != msg.content: *last = msg.content.  Nothing else happens for
\* an equal content, and the guard is dropped.
\* synced records that the clipboard thread had nothing left to report when
\* the content was taken: the clipboard held last_message, and so did any
\* text the clipboard thread had read and not yet compared.
BridgeCheck ==
  /\ alive /\ mode = "mac"
  /\ b_pc = "locked"
  /\ LET r == TryAccept(last_message, b_msg)
     IN  /\ last_message' = r.last
         /\ checks' = Logged("stdin_thread", b_msg, r)
         /\ IF r.some
              THEN /\ b_pc' = "apply"
                   /\ lock' = lock
                   /\ synced' = (/\ clipboard = last_message
                                 /\ w_pc = "lock" => w_text = last_message)
                   /\ quiet' = FALSE
              ELSE /\ b_pc' = "read"
                   /\ lock' = "free"
                   /\ UNCHANGED << synced, quiet >>
  /\ UNCHANGED << mode, alive, poisoned, stderr, clipboard, w_pc, w_text,
                  b_msg, stdin_lines, stdout, set_calls, nExt >>
  /\ UNCHANGED linux_vars

\* Clipboard::new().expect("Failed to open clipboard") succeeds and
\* clipboard.set_text(msg.content) returns Ok (ok) or Err; then the guard is
\* dropped.
\* quiet records that the content was taken from a synced state and written
\* to the clipboard, and that the user has not changed the clipboard since.
BridgeApply(ok) ==
  /\ alive /\ mode = "mac"
  /\ b_pc = "apply"
  /\ clipboard' = IF ok THEN b_msg ELSE clipboard
  /\ set_calls' = set_calls + 1
  /\ quiet' = (ok /\ synced)
  /\ synced' = FALSE
  /\ lock' = "free"
  /\ b_pc' = "read"
  /\ UNCHANGED << mode, alive, last_message, poisoned, stderr, checks, w_pc,
                  w_text, b_msg, stdin_lines, stdout, nExt >>
  /\ UNCHANGED linux_vars

\* Clipboard::new() fails: expect panics with the guard alive, which poisons
\* the Mutex and ends the stdin thread
BridgeApplyPanic ==
  /\ alive /\ mode = "mac"
  /\ b_pc = "apply"
  /\ poisoned' = TRUE
  /\ lock' = "free"
  /\ b_pc' = "panicked"
  /\ synced' = FALSE
  /\ UNCHANGED << mode, alive, last_message, stderr, checks, clipboard, w_pc,
                  w_text, b_msg, stdin_lines, stdout, set_calls, nExt, quiet >>
  /\ UNCHANGED linux_vars

\* clipboard_thread.join().expect("Clipboard thread panicked"): main panics
\* and the process ends
MainJoin ==
  /\ alive /\ mode = "mac"
  /\ w_pc = "panicked"
  /\ alive' = FALSE
  /\ UNCHANGED << mode, last_message, lock, poisoned, stderr, checks >>
  /\ UNCHANGED mac_vars
  /\ UNCHANGED linux_vars

(***************************************************************************)
(* Specification.                                                          *)
(***************************************************************************)
Client ==
  \E c \in Conns :
    \/ \E r \in Requests : ClientConnect(c, r)
    \/ ClientSend(c)
    \/ ClientRead(c)

Server ==
  \/ Accept
  \/ HandlerReadLine
  \/ HandlerGetLock
  \/ HandlerGetReply
  \/ HandlerSetLock
  \/ HandlerSetCheck
  \/ HandlerSetReply
  \/ HandlerUnknown
  \/ HandlerShutdown

Watcher ==
  \/ \E ok \in BOOLEAN : WatcherOpen(ok)
  \/ WatcherRead
  \/ WatcherReadErr
  \/ WatcherLock
  \/ WatcherCheck

Bridge ==
  \/ \E raw \in InboundLines : BridgeReadLine(raw)
  \/ BridgeLock
  \/ BridgeCheck
  \/ \E ok \in BOOLEAN : BridgeApply(ok)
  \/ BridgeApplyPanic

Next ==
  \/ Client
  \/ Server
  \/ \E t \in Texts : ExternalCopy(t)
  \/ Watcher
  \/ Bridge
  \/ MainJoin

Spec == Init /\ [][Next]_vars

\* Threads that can run do run: the handler thread and the clients are
\* scheduled by the operating system.  Nothing obliges a client to connect.
LiveSpec ==
  /\ Spec
  /\ WF_vars(Server)
  /\ \A c \in Conns : WF_vars(ClientSend(c)) /\ WF_vars(ClientRead(c))

(***************************************************************************)
(* Properties.                                                             *)
(***************************************************************************)
LastCheck == checks[Len(checks)]

\* the stdin thread compares a decoded content equal to last_message
DuplicateFrame == b_pc = "locked" /\ b_pc' # b_pc /\ b_msg = last_message

\* C1: when the stdin thread handles a frame whose content equals
\* last_message, it goes back to reading the next line with last_message,
\* the clipboard and stderr as they were and without a call of set_text.
C1_LoopFreedom ==
  [][DuplicateFrame =>
       /\ b_pc' = "read"
       /\ UNCHANGED << last_message, clipboard, stderr, set_calls >>]_vars

\* a frame with the content last_message already held was handled, after
\* last_message had been set
C1_Witness ==
  /\ checks # << >>
  /\ LastCheck.who = "stdin_thread"
  /\ ~LastCheck.some
  /\ LastCheck.cand # << >>
  /\ b_pc = "read"

\* C2: once the stdin thread has taken a content from a synced state and
\* written it to the clipboard, and while the user does not change the
\* clipboard, no frame is written to stderr.
C2_NoEcho == [][quiet => stderr' = stderr]_vars

\* C3: every line written to stderr for a content, read back as a line of
\* stdin, carries the prefix the stdin thread looks for and decodes to that
\* content.
C3_RoundTrip ==
  \A i \in DOMAIN stderr :
    LET line == LinesItem(stderr[i].line)
    IN  /\ IsFrame(line)
        /\ Decode(line).ok
        /\ Decode(line).content = stderr[i].content

\* two comparisons in succession were made with the same candidate
SameTwice == Len(checks) = 2 /\ checks[1].cand = checks[2].cand

\* C4 as stated: of two comparisons in succession with the same text, the
\* first takes it and the second does not.
C4_SomeThenNone == SameTwice => checks[1].some /\ ~checks[2].some

\* C4, amended: of two comparisons in succession with the same text t, the
\* second does not take it and last_message is t afterwards; the first takes
\* it exactly when t differs from the last_message it is compared with.
C4_Idempotence ==
  SameTwice =>
    /\ ~checks[2].some
    /\ last_message = checks[2].cand
    /\ checks[1].some <=> (checks[1].before # checks[1].cand)

C4_Witness == SameTwice /\ checks[1].some /\ ~checks[2].some

\* SET requests compared with last_message so far
Checked == {c \in Conns : conn[c].chk.checked}

\* C5: with up to two SET requests, last_message is the payload of the
\* request compared last, each one that was taken wrote one frame, and no two
\* frames on stderr carry the same content.
C5_SetRace ==
  (mode = "linux" /\ last_checker # 0 /\ Cardinality(Checked) <= 2) =>
    /\ last_message = RequestPayload(conn[last_checker].req.bytes)
    /\ \A c \in Checked :
         Len(conn[c].chk.frames) =
           (IF conn[c].chk.before # RequestPayload(conn[c].req.bytes) THEN 1 ELSE 0)
    /\ \A i, j \in DOMAIN stderr : i # j => stderr[i].content # stderr[j].content

\* C6: a GET that follows a SET answered OK is answered with the payload of
\* that SET.
C6_SetGetRoundTrip ==
  (srv_pc = "shutdown" /\ command = GET /\ ok_set.valid) =>
    conn[accepted].reply = ok_set.payload

\* the verb of a request: what precedes its first space or line end
RECURSIVE Verb(_)
Verb(bytes) ==
  IF bytes = << >> \/ bytes[1] \in {" ", "\n"} THEN << >>
  ELSE <<bytes[1]>> \o Verb(Drop(bytes, 1))

\* C7: every answered request that starts with "SET " is answered OK, and
\* every answered request with another verb than GET and SET is answered
\* Unknown command without a comparison with last_message.
C7_ReplyRule ==
  \A c \in Conns :
    conn[c].replied =>
      /\ StartsWith(conn[c].req.bytes, SET_) => conn[c].reply = OK
      /\ Verb(conn[c].req.bytes) \notin {GET, <<"S", "E", "T">>} =>
           conn[c].reply = UnknownCommand /\ ~conn[c].chk.checked

\* C8: a SET whose payload t differs from last_message when it is compared
\* writes one frame with content t, and a SET whose payload equals it writes
\* none.
C8_EmitOnAccept ==
  \A c \in Checked :
    LET t == RequestPayload(conn[c].req.bytes)
    IN  conn[c].chk.frames = (IF t # conn[c].chk.before THEN <<Emit(t)>> ELSE << >>)

\* C9: every xclip client that has sent its request comes to the end of its
\* read of the reply.
C9_ClientTerminates ==
  \A c \in Conns :
    (conn[c].cl = "sent" /\ conn[c].req.kind \in {"xclip_get", "xclip_set"})
      ~> (conn[c].cl = "done")

\* line does not start with the frame prefix
PassThrough(line) == ~StartsWith(line, IN_PREFIX)

\* C10: stdout holds the lines of stdin that do not start with the frame
\* prefix, unchanged and in their order.
C10_PassThroughFidelity == stdout = SelectSeq(stdin_lines, PassThrough)

\* C11: a failure to open or to write the clipboard while the stdin thread
\* applies a frame leaves the stdin thread, the clipboard thread and the
\* process running.
C11_ClipboardFailureNonFatal ==
  /\ b_pc # "panicked"
  /\ poisoned => (w_pc # "panicked" /\ alive)

\* C12: a frame is written to stderr, and set_text is called, only by a step
\* taken with the Mutex free: never by the thread that holds it.
C12_NoIoUnderLock ==
  [][(stderr' # stderr \/ set_calls' # set_calls) => lock = "free"]_vars

\* C13: last_message is the value of the latest comparison (the one it took,
\* or the equal one it refused); a comparison that writes last_message writes
\* a value different from the one it held; and between two comparisons in
\* succession nothing else writes it, so that it is written nowhere but in a
\* comparison.
C13_SyncStateInvariant ==
  /\ checks = << >> => last_message = << >>
  /\ checks # << >> => last_message = LastCheck.cand
  /\ \A i \in DOMAIN checks :
       checks[i].some <=> (checks[i].before # checks[i].cand)
  /\ Len(checks) = 2 => checks[2].before = checks[1].cand

\* two values were taken in succession, by different threads
C13_Witness ==
  /\ Len(checks) = 2
  /\ checks[1].some /\ checks[2].some
  /\ checks[1].who # checks[2].who

\* the clipboard thread compares the text it read with last_message
WatcherCompares == w_pc = "locked" /\ w_pc' # w_pc

\* C14: on the relay a frame is written to stderr only by the comparison of
\* the clipboard thread.  When the text read differs from last_message the
\* comparison writes one frame with that text and last_message becomes the
\* text; when it is equal it writes none and leaves last_message.  No other
\* step of the clipboard thread writes a frame or last_message (a tick whose
\* read fails changes nothing at all).
C14_WatcherEmission ==
  [][/\ WatcherCompares =>
          IF w_text # last_message
            THEN /\ stderr' = Append(stderr, Emit(w_text))
                 /\ last_message' = w_text
            ELSE UNCHANGED << stderr, last_message >>
     /\ (mode = "mac" /\ ~WatcherCompares) => stderr' = stderr
     /\ (w_pc' # w_pc /\ ~WatcherCompares) => UNCHANGED << stderr, last_message >>]_vars

\* the clipboard thread has written a frame for the text of the clipboard
C14_Witness ==
  /\ mode = "mac"
  /\ w_pc = "sleep"
  /\ stderr # << >>
  /\ stderr[Len(stderr)].content = last_message
  /\ checks # << >> /\ LastCheck.who = "clipboard_thread" /\ LastCheck.some

\* connection c carries a whole request: a line, or a stream that has ended
RequestSent(c) ==
  /\ conn[c].cl = "sent"
  /\ IF HasNewline(conn[c].req.bytes) THEN TRUE ELSE conn[c].req.close

\* C15: a client that has sent a whole request is answered, whatever the
\* clients of the other connections do or fail to do.
C15_IndependentConnections ==
  \A c \in Conns : RequestSent(c) ~> conn[c].replied

\* the stdin thread reads a line that carries the prefix and does not decode
UndecodableFrame ==
  /\ b_pc = "read"
  /\ Len(stdin_lines') = Len(stdin_lines) + 1
  /\ LET line == LinesItem(stdin_lines'[Len(stdin_lines')])
     IN  IsFrame(line) /\ ~Decode(line).ok

\* C16: a line with the prefix that does not decode changes neither
\* last_message nor the clipboard, writes nothing to stderr or stdout, calls
\* no set_text, and leaves the stdin thread reading the next line.
C16_DecodeFailureDropped ==
  [][UndecodableFrame =>
       /\ b_pc' = "read"
       /\ UNCHANGED << last_message, clipboard, stderr, stdout, set_calls,
                       lock, poisoned, alive >>]_vars

\* a line that does not decode was dropped and a later line was handled
C16_Witness ==
  /\ Len(stdin_lines) = 2
  /\ IsFrame(stdin_lines[1]) /\ ~Decode(stdin_lines[1]).ok
  /\ stdout = << stdin_lines[2] >>

\* the command the handler makes of a request: its first line, trimmed
FirstCommand(bytes) == Trim(FirstLine(bytes))

\* C17: a connection is answered once, with last_message, OK or Unknown
\* command, and is closed after its answer; what was answered, compared and
\* written for it never changes afterwards.  On the socket server
\* last_message and stderr are written only for the connection being served,
\* before its answer, in its one comparison, and that comparison is made
\* with the first line of the connection alone.
C17_OneRequestPerConnection ==
  /\ [](\A c \in Conns :
          /\ conn[c].closed => conn[c].replied
          /\ conn[c].replied =>
               \/ conn[c].reply \in {OK, UnknownCommand}
               \/ FirstCommand(conn[c].req.bytes) = GET
          /\ conn[c].chk.checked =>
               /\ StartsWith(FirstCommand(conn[c].req.bytes), SET_)
               /\ Len(conn[c].chk.frames) <= 1
               /\ \A i \in DOMAIN conn[c].chk.frames :
                    conn[c].chk.frames[i] =
                      Emit(Drop(FirstCommand(conn[c].req.bytes), Len(SET_))))
  /\ [][/\ \A c \in Conns :
             /\ conn[c].replied =>
                  /\ conn'[c].replied
                  /\ conn'[c].reply = conn[c].reply
                  /\ conn'[c].chk = conn[c].chk
             /\ conn[c].chk.checked => conn'[c].chk = conn[c].chk
             /\ conn[c].closed => conn'[c].closed
        /\ (mode = "linux" /\ (last_message' # last_message \/ stderr' # stderr)) =>
             /\ ~conn[accepted].replied
             /\ ~conn[accepted].chk.checked
             /\ conn'[accepted].chk.checked
        /\ (srv_pc = "shutdown" /\ srv_pc' # srv_pc) =>
             (conn'[accepted].closed /\ srv_pc' = "accept")]_vars

\* a connection that carried a second request, SET a, was answered and
\* closed, and nothing was set or written
C17_Witness ==
  \E c \in Conns :
    /\ conn[c].req = Pipelined
    /\ conn[c].closed
    /\ conn[c].reply = << >>
    /\ last_message = << >>
    /\ stderr = << >>

\* the handler serves a GET: from taking the lock to the end of the thread
ServingGet == command = GET /\ srv_pc \in {"dispatch", "get_locked", "shutdown"}

\* C18: the steps that serve a GET leave last_message and stderr as they
\* are; the reply is the last_message read with the lock held, which is the
\* empty text when no SET was compared before.
C18_GetReadOnly ==
  [][(ServingGet /\ srv_pc' # srv_pc) =>
       /\ UNCHANGED << last_message, stderr, checks >>
       /\ srv_pc = "get_locked" =>
            /\ lock = "unix_socket_reader_thread"
            /\ conn'[accepted].replied
            /\ conn'[accepted].reply = last_message
            /\ last_checker = 0 => conn'[accepted].reply = << >>]_vars

\* a GET was answered with a text set before
C18_Witness ==
  /\ command = GET
  /\ srv_pc = "shutdown"
  /\ conn[accepted].reply # << >>
  /\ conn[accepted].reply = last_message

\* On the relay the two threads are scheduled whenever they can run, and the
\* clipboard thread's reads succeed again and again.  Nothing obliges the
\* user to copy or the peer to send a line.
RelayLiveSpec ==
  /\ Spec
  /\ WF_vars(WatcherRead)
  /\ WF_vars(WatcherLock)
  /\ WF_vars(WatcherCheck)
  /\ WF_vars(BridgeLock)
  /\ WF_vars(BridgeCheck)
  /\ WF_vars((\E ok \in BOOLEAN : BridgeApply(ok)) \/ BridgeApplyPanic)

\* C19: once the clipboard thread runs, last_message comes to equal the text
\* of the clipboard and stays equal to it (the user copies at most MaxExt
\* times and at most MaxLines lines arrive, so both stop).  A frame written
\* by the clipboard thread changes last_message, so none is written while
\* the two stay equal.
C19_Quiescence ==
  (mode = "mac" /\ w_pc = "sleep") ~> [](last_message = clipboard)

\* s is empty or holds nothing but whitespace
Blank(s) == \A i \in DOMAIN s : IsWhitespace(s[i])

====
